---------------------------- MODULE Spec2Model ----------------------------
(***************************************************************************)
(* A model of src/model/naivebayes.py: the NaiveBayes classifier           *)
(* (__init__, train, predict) and the Modifier-Bigram extractor features2. *)
(*                                                                         *)
(* Tokens are sequences of one-character strings, so that str.lower() and  *)
(* the f-string that joins a bigram are computed character by character.   *)
(* Probabilities are exact rationals <<num, den>> in lowest terms with     *)
(* den > 0; a score (a sum of logarithms) is kept as the rational whose    *)
(* logarithm it is, together with the number of 1e-10 floor terms added.   *)
(***************************************************************************)
EXTENDS Integers, Sequences, FiniteSets

(***************************************************************************)
(* Bounds of the model.                                                    *)
(***************************************************************************)
\* most examples in one training set, and most tokens in it (all examples
\* together), where train alone is checked
MaxDocs == 3
MaxTokens == 3
\* the same, where predict follows train
MaxModelDocs == 3
MaxModelTokens == 2
\* most tokens in a document given to predict
MaxPredictLen == 2
\* most examples in one call of features2, and most tokens in them
MaxF2Docs == 1
MaxF2Tokens == 3

(***************************************************************************)
(* Exact rational arithmetic for Python's true division.                   *)
(***************************************************************************)
RECURSIVE GCD(_, _)
GCD(a, b) == IF b = 0 THEN a ELSE GCD(b, a % b)

Abs(n) == IF n < 0 THEN -n ELSE n

\* the rational n/d (d # 0) in lowest terms with a positive denominator
Rat(n, d) ==
    LET g == GCD(Abs(n), Abs(d))
        s == IF d < 0 THEN -1 ELSE 1
    IN  <<(s * n) \div g, (s * d) \div g>>

RatInt(n) == <<n, 1>>
RatAdd(p, q) == Rat(p[1] * q[2] + q[1] * p[2], p[2] * q[2])
RatMul(p, q) == Rat(p[1] * q[1], p[2] * q[2])
RatLess(p, q) == p[1] * q[2] < q[1] * p[2]
RatIsZero(p) == p[1] = 0

Zero == RatInt(0)
One == RatInt(1)

RECURSIVE RatSum(_, _)
\* the sum of f[x] over the finite set S
RatSum(f, S) ==
    IF S = {} THEN Zero
    ELSE LET x == CHOOSE y \in S : TRUE
         IN  RatAdd(f[x], RatSum(f, S \ {x}))

RECURSIVE NatSum(_, _)
NatSum(f, S) ==
    IF S = {} THEN 0
    ELSE LET x == CHOOSE y \in S : TRUE
         IN  f[x] + NatSum(f, S \ {x})

(***************************************************************************)
(* Python dicts keep insertion order: a dict whose order matters           *)
(* (class_priors, scores) is a sequence of <<key, value>> pairs with       *)
(* distinct keys.                                                          *)
(***************************************************************************)
Keys(d) == {d[i][1] : i \in DOMAIN d}
Get(d, key) == d[CHOOSE i \in DOMAIN d : d[i][1] = key][2]

(***************************************************************************)
(* NaiveBayes.train                                                        *)
(***************************************************************************)
TextOf(example) == example[1]
LabelOf(example) == example[2]

RECURSIVE LabelOrder(_)
\* the keys of class_counts in insertion order: labels by first appearance
LabelOrder(data) ==
    IF data = <<>> THEN <<>>
    ELSE LET front == LabelOrder(SubSeq(data, 1, Len(data) - 1))
             l == LabelOf(data[Len(data)])
         IN  IF \E i \in DOMAIN front : front[i] = l
             THEN front ELSE Append(front, l)

\* class_counts[label] after the counting loop
ClassCount(data, label) ==
    Cardinality({i \in DOMAIN data : LabelOf(data[i]) = label})

\* the number of positions of text that hold word
Occurrences(text, word) ==
    Cardinality({j \in DOMAIN text : text[j] = word})

\* word_counts[label][word] after the counting loop (0 for a word not counted)
WordCount(data, label, word) ==
    NatSum([i \in DOMAIN data |->
               IF LabelOf(data[i]) = label
               THEN Occurrences(TextOf(data[i]), word) ELSE 0],
           DOMAIN data)

\* vocabulary after the counting loop
VocabularyOf(data) ==
    UNION {{TextOf(data[i])[j] : j \in DOMAIN TextOf(data[i])} : i \in DOMAIN data}

\* Prior with the total off by one
PriorOffByOne(count, total_documents) == Rat(count, total_documents + 1)

\* count/total_documents
Prior(count, total_documents) == Rat(count, total_documents)

\* TotalWords counting the distinct words of the label, not their occurrences
TotalWordsDistinct(counts) == Cardinality({w \in DOMAIN counts : counts[w] > 0})

\* total_words = sum(word_counts[label].values())
TotalWords(counts) == NatSum(counts, DOMAIN counts)

\* Numerator without the smoothing constant
NumeratorUnsmoothed(count, k) == RatInt(count)

\* numerator = word_counts[label][word] + k
Numerator(count, k) == RatAdd(RatInt(count), k)

\* denominator = total_words + k * vocab_size
Denominator(total_words, k, vocab_size) ==
    RatAdd(RatInt(total_words), RatMul(k, RatInt(vocab_size)))

\* numerator / denominator, for a denominator that is not zero
Quotient(numerator, denominator) ==
    Rat(numerator[1] * denominator[2], numerator[2] * denominator[1])

\* WordProbKeys running over the words counted for the label only
WordProbKeysCounted(vocabulary, counts) == {w \in vocabulary : counts[w] > 0}

\* the keys of word_probs[label]: the inner loop runs over the vocabulary
WordProbKeys(vocabulary, counts) == vocabulary

\* what train(data, k) ends in: the components handed to cls(...), or the
\* ZeroDivisionError of the division of line 100
Train(data, k) ==
    LET total_documents == Len(data)
        labels == LabelOrder(data)
        label_set == {labels[i] : i \in DOMAIN labels}
        vocabulary == VocabularyOf(data)
        word_counts == [l \in label_set |->
                           [w \in vocabulary |-> WordCount(data, l, w)]]
        class_priors ==
            [i \in DOMAIN labels |->
                <<labels[i], Prior(ClassCount(data, labels[i]), total_documents)>>]
        vocab_size == Cardinality(vocabulary)
        denominator == [l \in label_set |->
                           Denominator(TotalWords(word_counts[l]), k, vocab_size)]
    IN  IF vocabulary # {} /\ \E l \in label_set : RatIsZero(denominator[l])
        THEN [outcome |-> "ZeroDivisionError", class_priors |-> <<>>,
              word_probs |-> <<>>, vocabulary |-> {}]
        ELSE [outcome |-> "ok",
              class_priors |-> class_priors,
              word_probs |->
                  [l \in label_set |->
                      [w \in WordProbKeys(vocabulary, word_counts[l]) |->
                          Quotient(Numerator(word_counts[l][w], k), denominator[l])]],
              vocabulary |-> vocabulary]

(***************************************************************************)
(* NaiveBayes.__init__: an optional argument is <<>> (None) or <<value>>.  *)
(***************************************************************************)
None == <<>>
Some(v) == <<v>>

\* `arg or {}`: None gives the empty container; an empty (falsy) argument is
\* replaced by an equal empty container, any other argument is kept
OrEmpty(arg, empty) == IF arg = None THEN empty ELSE arg[1]

NaiveBayesInit(cp, wp, vocab) ==
    [class_priors |-> OrEmpty(cp, <<>>),
     word_probs |-> OrEmpty(wp, <<>>),
     vocabulary |-> OrEmpty(vocab, {})]

(***************************************************************************)
(* NaiveBayes.predict.  A score stands for                                 *)
(*     log(num / den) + floors * log(1e-10).                               *)
(***************************************************************************)
MathDomainError == "ValueError: math domain error"
EmptyMaxError == "ValueError: max() arg is an empty sequence"
KeyError == "KeyError"

\* score = math.log(prior)
LogScore(p) == [num |-> p[1], den |-> p[2], floors |-> 0]

\* score += math.log(p)
AddLog(score, p) ==
    LET r == Rat(score.num * p[1], score.den * p[2])
    IN  [num |-> r[1], den |-> r[2], floors |-> score.floors]

\* score += math.log(1e-10)
AddFloor(score) == [score EXCEPT !.floors = @ + 1]

\* a < b.  With equal numbers of floor terms the rationals decide.  Otherwise
\* the floor terms decide: floor terms arise only for hand-built models,
\* whose rationals have products far below 10^10, so one more factor of
\* 1e-10 outweighs the quotient of the rationals.
ScoreLess(a, b) ==
    IF a.floors = b.floors
    THEN a.num * b.den < b.num * a.den
    ELSE a.floors > b.floors

RECURSIVE AddWordsUnfiltered(_, _, _, _, _, _)
\* AddWords without the test `word in self.vocabulary`
AddWordsUnfiltered(wp, vocab, label, x, i, score) ==
    IF i > Len(x) THEN [outcome |-> "ok", score |-> score]
    ELSE IF label \notin DOMAIN wp
    THEN [outcome |-> KeyError, score |-> score]
    ELSE IF x[i] \notin DOMAIN wp[label]
    THEN AddWordsUnfiltered(wp, vocab, label, x, i + 1, AddFloor(score))
    ELSE IF wp[label][x[i]][1] <= 0
    THEN [outcome |-> MathDomainError, score |-> score]
    ELSE AddWordsUnfiltered(wp, vocab, label, x, i + 1,
                            AddLog(score, wp[label][x[i]]))

RECURSIVE AddWords(_, _, _, _, _, _)
\* the loop over the words of x from position i on, for one class label
AddWords(wp, vocab, label, x, i, score) ==
    IF i > Len(x) THEN [outcome |-> "ok", score |-> score]
    ELSE IF x[i] \notin vocab
    THEN AddWords(wp, vocab, label, x, i + 1, score)
    ELSE IF label \notin DOMAIN wp
    THEN [outcome |-> KeyError, score |-> score]
    ELSE IF x[i] \notin DOMAIN wp[label]
    THEN AddWords(wp, vocab, label, x, i + 1, AddFloor(score))
    ELSE IF wp[label][x[i]][1] <= 0
    THEN [outcome |-> MathDomainError, score |-> score]
    ELSE AddWords(wp, vocab, label, x, i + 1, AddLog(score, wp[label][x[i]]))

\* the body of the loop over class labels, for the label at position i
LabelScore(cp, wp, vocab, x, i) ==
    IF cp[i][2][1] <= 0
    THEN [outcome |-> MathDomainError, score |-> LogScore(One)]
    ELSE AddWords(wp, vocab, cp[i][1], x, 1, LogScore(cp[i][2]))

RECURSIVE ScoreLabels(_, _, _, _, _, _)
\* the loop over class labels from position i on; scores is the dict so far
ScoreLabels(cp, wp, vocab, x, i, scores) ==
    IF i > Len(cp) THEN [outcome |-> "ok", scores |-> scores]
    ELSE LET r == LabelScore(cp, wp, vocab, x, i)
         IN  IF r.outcome # "ok"
             THEN [outcome |-> r.outcome, scores |-> scores]
             ELSE ScoreLabels(cp, wp, vocab, x, i + 1,
                              Append(scores, <<cp[i][1], r.score>>))

\* ArgMax with a default for the empty dict, as max(..., default=...) gives
ArgMaxWithDefault(scores) ==
    IF scores = <<>>
    THEN [outcome |-> "ok", result |-> Some("pos")]
    ELSE LET best == {i \in DOMAIN scores :
                         \A j \in DOMAIN scores : ~ScoreLess(scores[i][2], scores[j][2])}
             first == CHOOSE i \in best : \A j \in best : i <= j
         IN  [outcome |-> "ok", result |-> Some(scores[first][1])]

\* max(scores.items(), key=...): the first item no other item beats
ArgMax(scores) ==
    IF scores = <<>>
    THEN [outcome |-> EmptyMaxError, result |-> None]
    ELSE LET best == {i \in DOMAIN scores :
                         \A j \in DOMAIN scores : ~ScoreLess(scores[i][2], scores[j][2])}
             first == CHOOSE i \in best : \A j \in best : i <= j
         IN  [outcome |-> "ok", result |-> Some(scores[first][1])]

\* what predict(x) ends in: the local scores, and the label returned or the error
Predict(cp, wp, vocab, x) ==
    LET r == ScoreLabels(cp, wp, vocab, x, 1, <<>>)
        m == ArgMax(r.scores)
    IN  IF r.outcome # "ok"
        THEN [outcome |-> r.outcome, scores |-> r.scores, result |-> None]
        ELSE [outcome |-> m.outcome, scores |-> r.scores, result |-> m.result]

(***************************************************************************)
(* features2                                                               *)
(***************************************************************************)
UpperCase ==
    <<"A","B","C","D","E","F","G","H","I","J","K","L","M",
      "N","O","P","Q","R","S","T","U","V","W","X","Y","Z">>
LowerCase ==
    <<"a","b","c","d","e","f","g","h","i","j","k","l","m",
      "n","o","p","q","r","s","t","u","v","w","x","y","z">>

LowerChar(c) ==
    IF \E i \in DOMAIN UpperCase : UpperCase[i] = c
    THEN LowerCase[CHOOSE i \in DOMAIN UpperCase : UpperCase[i] = c]
    ELSE c

\* word.lower()
Lower(word) == [i \in DOMAIN word |-> LowerChar(word[i])]

intensifiers ==
    { <<"s","o">>,
      <<"r","e","a","l","l","y">>,
      <<"v","e","r","y">>,
      <<"t","o","o">>,
      <<"m","o","r","e">>,
      <<"m","o","s","t">>,
      <<"a","b","s","o","l","u","t","e","l","y">>,
      <<"t","o","t","a","l","l","y">>,
      <<"c","o","m","p","l","e","t","e","l","y">>,
      <<"l","i","t","e","r","a","l","l","y">>,
      <<"e","x","t","r","e","m","e","l","y">>,
      <<"i","n","c","r","e","d","i","b","l","y">>,
      <<"h","i","g","h","l","y">>,
      <<"s","u","p","e","r">>,
      <<"e","x","t","r","a">> }

negations ==
    { <<"n","o","t">>,
      <<"n","o">>,
      <<"n","e","v","e","r">>,
      <<"n","o","n","e">>,
      <<"n","o","t","h","i","n","g">>,
      <<"n","o","b","o","d","y">>,
      <<"d","o","n","'","t">>,
      <<"d","o","e","s","n","'","t">>,
      <<"d","i","d","n","'","t">>,
      <<"a","i","n","'","t">>,
      <<"c","a","n","n","o","t">>,
      <<"c","a","n","t">>,
      <<"w","o","n","'","t">>,
      <<"w","o","u","l","d","n","'","t">>,
      <<"s","h","o","u","l","d","n","'","t">>,
      <<"h","a","v","e","n","'","t">>,
      <<"h","a","s","n","'","t">>,
      <<"n","e","i","t","h","e","r">>,
      <<"n","o","r">> }

\* Bigram joining the lowercased first word
BigramLowered(first, second) == Lower(first) \o <<"_">> \o second

\* f"{text[i]}_{text[i+1]}"
Bigram(first, second) == first \o <<"_">> \o second

\* the condition of line 189 for the word at position i
IsModifier(text, i) ==
    Lower(text[i]) \in intensifiers \/ Lower(text[i]) \in negations

RECURSIVE Bigrams(_, _)
\* what the loop `for i in range(len(text) - 1)` appends, from position i on
Bigrams(text, i) ==
    IF i > Len(text) - 1 THEN <<>>
    ELSE IF IsModifier(text, i)
    THEN <<Bigram(text[i], text[i + 1])>> \o Bigrams(text, i + 1)
    ELSE Bigrams(text, i + 1)

\* features of one document: the words, then the bigrams
Features2Of(text) == text \o Bigrams(text, 1)

\* processed_data
Processed2(data) ==
    [i \in DOMAIN data |-> <<Features2Of(TextOf(data[i])), LabelOf(data[i])>>]

(***************************************************************************)
(* The inputs the calls are made with.                                     *)
(***************************************************************************)
good == <<"g","o","o","d">>
bad == <<"b","a","d">>
unknownword == <<"u","n","k","n","o","w","n","w","o","r","d">>
not == <<"n","o","t">>
at == <<"a","t">>
all == <<"a","l","l">>
So == <<"S","o">>

Labels == {"pos", "neg"}
TrainTokens == {good, bad}
PredictTokens == TrainTokens \cup {unknownword}
F2Tokens == {not, bad, at, all, So}

\* smoothing constants: 0, 1/2, 1 (the default) and 2
KValues == {Zero, Rat(1, 2), One, RatInt(2)}

\* lens[1] + ... + lens[i]
RECURSIVE LenSum(_, _)
LenSum(lens, i) == IF i = 0 THEN 0 ELSE lens[i] + LenSum(lens, i - 1)

\* the training set whose i-th example has the next lens[i] tokens of flat as
\* its text and labels[i] as its label
DataFrom(lens, flat, labels) ==
    [i \in DOMAIN lens |->
        <<SubSeq(flat, LenSum(lens, i - 1) + 1, LenSum(lens, i)), labels[i]>>]

\* components a caller hands to NaiveBayes(...) directly
HandPriors ==
    {None,
     Some(<<<<"pos", Rat(1, 2)>>, <<"neg", Rat(1, 2)>>>>),
     Some(<<<<"pos", One>>, <<"neg", Zero>>>>)}
HandWordProbs ==
    {None,
     Some([l \in Labels |->
             [w \in {good, bad} |->
                 IF (l = "pos") = (w = good) THEN Rat(2, 3) ELSE Rat(1, 3)]]),
     Some([l \in Labels |-> [w \in {IF l = "pos" THEN good ELSE bad} |-> Rat(2, 3)]]),
     Some([l \in {"pos"} |-> [w \in {good, bad} |-> Rat(1, 2)]])}
HandVocabularies == {None, Some({good, bad})}

(***************************************************************************)
(* The state: the classifier instance, and the last call with its          *)
(* arguments and what it ended in.                                         *)
(***************************************************************************)
VARIABLES
    op,            \* the last call: "none", "__init__", "train", "features2", "predict"
    built_by,      \* the call that built the instance, "none" while there is none
    data,          \* the data of the train or features2 call, <<>> once predict runs
    k,             \* the smoothing constant the instance was trained with
    processed,     \* processed_data of features2
    class_priors,  \* self.class_priors
    word_probs,    \* self.word_probs
    vocabulary,    \* self.vocabulary
    x,             \* the document of the predict call
    scores,        \* the local scores of predict when it returns or raises
    result,        \* what predict returned, None if it raised
    outcome        \* "none", "ok", or the exception the last call raised

vars == <<op, built_by, data, k, processed, class_priors, word_probs,
          vocabulary, x, scores, result, outcome>>

Init ==
    /\ op = "none"
    /\ built_by = "none"
    /\ data = <<>>
    /\ k = Zero
    /\ processed = <<>>
    /\ class_priors = <<>>
    /\ word_probs = <<>>
    /\ vocabulary = {}
    /\ x = <<>>
    /\ scores = <<>>
    /\ result = None
    /\ outcome = "none"

\* NaiveBayes(cp, wp, vocab)
Construct ==
    /\ op = "none"
    /\ \E cp \in HandPriors, wp \in HandWordProbs, vocab \in HandVocabularies :
           LET self == NaiveBayesInit(cp, wp, vocab)
           IN  /\ class_priors' = self.class_priors
               /\ word_probs' = self.word_probs
               /\ vocabulary' = self.vocabulary
    /\ op' = "__init__"
    /\ built_by' = "__init__"
    /\ outcome' = "ok"
    /\ UNCHANGED <<data, k, processed, x, scores, result>>

\* binds the instance train returns, if it returns one
Bind(t, by) ==
    LET self == NaiveBayesInit(Some(t.class_priors), Some(t.word_probs),
                               Some(t.vocabulary))
    IN  /\ outcome' = t.outcome
        /\ built_by' = IF t.outcome = "ok" THEN by ELSE "none"
        /\ class_priors' = self.class_priors
        /\ word_probs' = self.word_probs
        /\ vocabulary' = self.vocabulary

\* NaiveBayes.train(d, kk), for training sets within the given bounds
TrainCall(maxDocs, maxTokens) ==
    /\ op = "none"
    /\ \E m \in 0..maxDocs : \E lens \in [1..m -> 0..maxTokens] :
         /\ LenSum(lens, m) <= maxTokens
         /\ \E flat \in [1..LenSum(lens, m) -> TrainTokens],
               labels \in [1..m -> Labels], kk \in KValues :
                LET d == DataFrom(lens, flat, labels)
                    t == Train(d, kk)
                IN  /\ data' = d
                    /\ k' = kk
                    /\ Bind(t, "train")
    /\ op' = "train"
    /\ UNCHANGED <<processed, x, scores, result>>

\* features2(d, kk)
Features2Call ==
    /\ op = "none"
    /\ \E m \in 0..MaxF2Docs : \E lens \in [1..m -> 0..MaxF2Tokens] :
         /\ LenSum(lens, m) <= MaxF2Tokens
         /\ \E flat \in [1..LenSum(lens, m) -> F2Tokens],
               labels \in [1..m -> Labels], kk \in KValues :
                LET d == DataFrom(lens, flat, labels)
                    processed_data == Processed2(d)
                    t == Train(processed_data, kk)
                IN  /\ data' = d
                    /\ k' = kk
                    /\ processed' = processed_data
                    /\ Bind(t, "features2")
    /\ op' = "features2"
    /\ UNCHANGED <<x, scores, result>>

\* self.predict(doc).  predict leaves the instance as it is, so a second call
\* on it reaches no state that a first call does not reach.
PredictCall ==
    /\ built_by # "none"
    /\ op # "predict"
    /\ \E n \in 0..MaxPredictLen : \E doc \in [1..n -> PredictTokens] :
           /\ x' = doc
           /\ LET r == Predict(class_priors, word_probs, vocabulary, doc)
              IN  /\ outcome' = r.outcome
                  /\ scores' = r.scores
                  /\ result' = r.result
    /\ op' = "predict"
    /\ data' = <<>>
    /\ processed' = <<>>
    /\ UNCHANGED <<built_by, k, class_priors, word_probs, vocabulary>>

\* a classifier is built, by hand or by train, and asked for a prediction
Next == Construct \/ TrainCall(MaxModelDocs, MaxModelTokens) \/ PredictCall

Spec == Init /\ [][Next]_vars

\* train alone
NextTrain == TrainCall(MaxDocs, MaxTokens)

SpecTrain == Init /\ [][NextTrain]_vars

\* features2 alone
NextFeatures == Features2Call

SpecFeatures == Init /\ [][NextFeatures]_vars

(***************************************************************************)
(* The claims.  What they say of a training set is stated on data itself,  *)
(* not through the operators train is modelled with.                       *)
(***************************************************************************)
Positive(p) == RatLess(Zero, p)

\* train has returned an instance
TrainReturned == op = "train" /\ outcome = "ok"

\* the examples labelled l, the labels and the tokens of the training data
DocsOf(l) == {i \in DOMAIN data : data[i][2] = l}
DataLabels == {data[i][2] : i \in DOMAIN data}
DataTokens ==
    {t \in TrainTokens :
        \E i \in DOMAIN data : \E j \in DOMAIN data[i][1] : data[i][1][j] = t}

\* the token positions of the examples labelled l
PositionsOf(l) == UNION {{<<i, j>> : j \in DOMAIN data[i][1]} : i \in DocsOf(l)}
\* total_tokens(l): occurrences, not distinct tokens
TokensOfLabel(l) == Cardinality(PositionsOf(l))
\* count(w, l)
CountOf(w, l) == Cardinality({q \in PositionsOf(l) : data[q[1]][1][q[2]] = w})

\* C1 (as claimed): train on zero examples ends in an error and returns no
\* instance.
C1_EmptyTrainingFails ==
    (op = "train" /\ data = <<>>) => (outcome # "ok" /\ built_by = "none")

\* C2 (as claimed): after train on non-empty data with k > 0, every word
\* probability is strictly between 0 and 1.
C2_StrictlyInside ==
    (TrainReturned /\ data # <<>> /\ Positive(k)) =>
        \A l \in DOMAIN word_probs : \A w \in vocabulary :
            Positive(word_probs[l][w]) /\ RatLess(word_probs[l][w], One)

\* C2 (amended): after train on non-empty data with k > 0, every word
\* probability is above 0 and at most 1, and it is 1 exactly when the
\* vocabulary holds a single token.
C2_AtMostOne ==
    (TrainReturned /\ data # <<>> /\ Positive(k)) =>
        \A l \in DOMAIN word_probs : \A w \in vocabulary :
            /\ Positive(word_probs[l][w])
            /\ ~RatLess(One, word_probs[l][w])
            /\ (word_probs[l][w] = One) <=> (Cardinality(vocabulary) = 1)

\* a one-token vocabulary and a label whose documents hold no token
C2_Witness ==
    /\ TrainReturned
    /\ Positive(k)
    /\ Cardinality(vocabulary) = 1
    /\ \E l \in DOMAIN word_probs :
           /\ TokensOfLabel(l) = 0
           /\ \A w \in vocabulary : word_probs[l][w] = One

\* C4: after train on non-empty data, the vocabulary is the set of tokens of
\* all examples, class_priors and word_probs have the labels of the data as
\* their keys, and every word_probs[l] has exactly the vocabulary as its keys.
C4_Coverage ==
    (TrainReturned /\ data # <<>>) =>
        /\ vocabulary = DataTokens
        /\ Keys(class_priors) = DataLabels
        /\ Len(class_priors) = Cardinality(DataLabels)
        /\ DOMAIN word_probs = DataLabels
        /\ \A l \in DataLabels :
               /\ DOMAIN word_probs[l] = vocabulary
               /\ Cardinality(DOMAIN word_probs[l]) = Cardinality(vocabulary)

\* two labels, and a vocabulary token never seen under one of them
C4_Witness ==
    /\ TrainReturned
    /\ Cardinality(DataLabels) = 2
    /\ \E l \in DataLabels : \E w \in vocabulary :
           CountOf(w, l) = 0 /\ w \in DOMAIN word_probs[l]

\* C5: train on non-empty data gives every label the prior
\* (examples of the label) / (examples), each prior is in (0, 1], the priors
\* sum to 1 and the per-label counts sum to the number of examples.  With
\* k > 0 train always returns; with k = 0 this is about the calls that return.
C5_Priors ==
    (op = "train" /\ data # <<>> /\ (Positive(k) \/ outcome = "ok")) =>
        /\ outcome = "ok"
        /\ \A i \in DOMAIN class_priors :
               LET l == class_priors[i][1]
                   p == class_priors[i][2]
               IN  /\ p[1] * Len(data) = p[2] * Cardinality(DocsOf(l))
                   /\ Positive(p)
                   /\ ~RatLess(One, p)
        /\ RatSum([i \in DOMAIN class_priors |-> class_priors[i][2]],
                  DOMAIN class_priors) = One
        /\ NatSum([l \in DataLabels |-> Cardinality(DocsOf(l))], DataLabels)
               = Len(data)

\* two labels with different priors
C5_Witness ==
    /\ TrainReturned
    /\ Len(class_priors) = 2
    /\ RatLess(class_priors[1][2], class_priors[2][2])

\* C9 (as claimed): train with k = 0 on non-empty data returns an instance,
\* in which every token with no occurrence under a label has probability 0.
C9_ZeroSmoothingReturns ==
    (op = "train" /\ k = Zero /\ data # <<>>) =>
        /\ outcome = "ok"
        /\ \A l \in DataLabels : \A w \in vocabulary :
               CountOf(w, l) = 0 => word_probs[l][w] = Zero

\* C10: after train with k > 0 and a non-empty vocabulary, the word
\* probabilities of every label sum to 1, each being
\* (count(w, l) + k) / (total_tokens(l) + k * |vocabulary|) with
\* total_tokens(l) the number of token occurrences under l.
C10_SumsToOne ==
    (TrainReturned /\ Positive(k) /\ vocabulary # {}) =>
        \A l \in DOMAIN word_probs :
            /\ RatSum(word_probs[l], vocabulary) = One
            /\ \A w \in vocabulary :
                   RatMul(word_probs[l][w],
                          RatAdd(RatInt(TokensOfLabel(l)),
                                 RatMul(k, RatInt(Cardinality(vocabulary)))))
                       = RatAdd(RatInt(CountOf(w, l)), k)

\* a label with a token that occurs twice, in a vocabulary of two tokens
C10_Witness ==
    /\ TrainReturned
    /\ Positive(k)
    /\ Cardinality(vocabulary) = 2
    /\ \E l \in DOMAIN word_probs : \E w \in vocabulary :
           /\ CountOf(w, l) = 2
           /\ TokensOfLabel(l) = 3
           /\ RatSum(word_probs[l], vocabulary) = One

\* predict has run on an instance that train built from non-empty data
PredictedOnTrained ==
    op = "predict" /\ built_by = "train" /\ class_priors # <<>>

\* the document of the predict call without its out-of-vocabulary tokens
InVocabulary(t) == t \in vocabulary
KnownTokens == SelectSeq(x, InVocabulary)

\* C3 (as claimed): predict on an instance trained on non-empty data with any
\* k >= 0 takes no logarithm of zero and returns a label.
C3_PredictNeverLogsZero ==
    PredictedOnTrained => (outcome = "ok" /\ result # None)

\* C6: predict on an instance with no labels raises, whatever the document,
\* and returns nothing.
C6_NoLabelsRaises ==
    (op = "predict" /\ class_priors = <<>>) =>
        (outcome = EmptyMaxError /\ result = None)

\* predict on NaiveBayes() with a non-empty document
C6_Witness ==
    /\ op = "predict"
    /\ built_by = "__init__"
    /\ class_priors = <<>>
    /\ DOMAIN word_probs = {}
    /\ vocabulary = {}
    /\ x # <<>>
    /\ outcome = EmptyMaxError

\* C7: on an instance trained with k > 0 on non-empty data, predict returns a
\* label, and its scores and its label are those of the document without its
\* out-of-vocabulary tokens; if no token is left, every score is the log
\* prior and the label returned has the greatest prior.
C7_UnknownTokensIgnored ==
    (PredictedOnTrained /\ Positive(k)) =>
        LET r == Predict(class_priors, word_probs, vocabulary, KnownTokens)
        IN  /\ outcome = "ok"
            /\ result # None
            /\ scores = r.scores
            /\ result = r.result
            /\ KnownTokens = <<>> =>
                   /\ scores = [i \in DOMAIN class_priors |->
                                   <<class_priors[i][1], LogScore(class_priors[i][2])>>]
                   /\ \A i \in DOMAIN class_priors :
                          ~RatLess(Get(class_priors, result[1]), class_priors[i][2])

\* a document with a known and an unknown token, on an instance of two
\* labels with different priors
C7_Witness ==
    /\ PredictedOnTrained
    /\ Positive(k)
    /\ \E i \in DOMAIN x : x[i] \notin vocabulary
    /\ KnownTokens # <<>>
    /\ Len(class_priors) = 2
    /\ RatLess(class_priors[1][2], class_priors[2][2])
    /\ outcome = "ok"
    /\ result # None

\* the positions of text whose word, lowercased, is an intensifier or a negation
\* and is followed by another word
ModifierPositions(text) ==
    {i \in 1..(Len(text) - 1) : Lower(text[i]) \in (intensifiers \cup negations)}

\* C8: the features features2 hands to train for a document are its words,
\* unchanged and in order, followed by one token w[i] + "_" + w[i+1] for each
\* position i but the last whose lowercased word is an intensifier or a
\* negation, in increasing i, and nothing else; ["not","bad","at","all"]
\* gives its four words and "not_bad".
C8_Features ==
    /\ Features2Of(<<not, bad, at, all>>)
           = <<not, bad, at, all, <<"n","o","t","_","b","a","d">>>>
    /\ op = "features2" =>
           /\ Len(processed) = Len(data)
           /\ \A e \in DOMAIN data :
                  LET text == data[e][1]
                      features == processed[e][1]
                      M == ModifierPositions(text)
                  IN  /\ processed[e][2] = data[e][2]
                      /\ Len(features) = Len(text) + Cardinality(M)
                      /\ \A i \in DOMAIN text : features[i] = text[i]
                      /\ \A i \in M :
                             features[Len(text) + Cardinality({m \in M : m <= i})]
                                 = text[i] \o <<"_">> \o text[i + 1]
           /\ outcome = "ok" =>
                  vocabulary = UNION {{processed[e][1][i] : i \in DOMAIN processed[e][1]} :
                                         e \in DOMAIN processed}

\* ["So","bad","not"]: a bigram in the original case for "So", none for the
\* negation in the last position
C8_Witness ==
    /\ op = "features2"
    /\ \E e \in DOMAIN data :
           /\ data[e][1] = <<So, bad, not>>
           /\ processed[e][1] = <<So, bad, not, <<"S","o","_","b","a","d">>>>

=============================================================================
